---- MODULE Spec2Model ----
(***************************************************************************)
(* data-backs: the POST /data/:name handler save_data of src/main.rs, its  *)
(* helpers is_valid_name and generate_filename, and the file system the    *)
(* handler writes to.  Strings are sequences of one-character strings,     *)
(* file contents are sequences of bytes (one character each).              *)
(***************************************************************************)
EXTENDS Integers, Sequences, FiniteSets, TLC

VARIABLES dirs, files, req, last, probe

vars == <<dirs, files, req, last, probe>>

(***************************************************************************)
(* Bounds of the model.                                                    *)
(***************************************************************************)
MaxNameLen == 3
MaxAddrLen == 1
MaxFileNameLen == 2
MaxArrLen == 2

(***************************************************************************)
(* Characters.                                                             *)
(***************************************************************************)
Digits == <<"0", "1", "2", "3", "4", "5", "6", "7", "8", "9">>

Numeric == {Digits[i] : i \in 1..10}

Alphabetic == {"a", "b", "n", "o", "e", "Z"}

\* char::is_alphanumeric
is_alphanumeric(c) == c \in Alphabetic \/ c \in Numeric

IsPrefix(s, t) == Len(s) <= Len(t) /\ SubSeq(t, 1, Len(s)) = s

(***************************************************************************)
(* is_valid_name: name.chars().all(|c| c.is_alphanumeric() || c == '-' ||  *)
(* c == '_'), evaluated left to right as Iterator::all does.               *)
(***************************************************************************)
\* the closure without its last alternative
NameCharOkNoUnderscore(c) == is_alphanumeric(c) \/ c = "-"

NameCharOk(c) == is_alphanumeric(c) \/ c = "-" \/ c = "_"

RECURSIVE is_valid_name(_)
is_valid_name(name) ==
  IF name = <<>> THEN TRUE
  ELSE IF ~NameCharOk(Head(name)) THEN FALSE
  ELSE is_valid_name(Tail(name))

(***************************************************************************)
(* generate_filename: the date of a UNIX timestamp (chrono's               *)
(* DateTime::from_timestamp and format("%Y-%m-%d")), the address with '.'  *)
(* and ':' replaced by '_', and the format! that joins them.               *)
(***************************************************************************)
RECURSIVE itoa(_)
itoa(n) ==
  IF n < 0 THEN <<"-">> \o itoa(-n)
  ELSE IF n < 10 THEN <<Digits[n + 1]>>
  ELSE itoa(n \div 10) \o <<Digits[(n % 10) + 1]>>

RECURSIVE ZeroPad(_, _)
ZeroPad(s, width) == IF Len(s) >= width THEN s ELSE ZeroPad(<<"0">> \o s, width)

\* the proleptic Gregorian date of a day count since 1970-01-01
CivilFromDays(days) ==
  LET z == days + 719468
      era == z \div 146097
      doe == z - era * 146097
      yoe == (doe - doe \div 1460 + doe \div 36524 - doe \div 146096) \div 365
      doy == doe - (365 * yoe + yoe \div 4 - yoe \div 100)
      mp == (5 * doy + 2) \div 153
      d == doy - (153 * mp + 2) \div 5 + 1
      m == IF mp < 10 THEN mp + 3 ELSE mp - 9
      y == yoe + era * 400 + (IF m <= 2 THEN 1 ELSE 0)
  IN [year |-> y, month |-> m, day |-> d]

\* date.format("%Y-%m-%d")
FormatDate(seconds) ==
  LET c == CivilFromDays(seconds \div 86400)
  IN ZeroPad(itoa(c.year), 4) \o <<"-">> \o ZeroPad(itoa(c.month), 2)
       \o <<"-">> \o ZeroPad(itoa(c.day), 2)

\* addr.replace('.', "_")
ReplaceDotOnly(addr) ==
  [i \in 1..Len(addr) |-> IF addr[i] = "." THEN "_" ELSE addr[i]]

\* addr.replace(['.', ':'], "_")
SanitizeAddr(addr) ==
  [i \in 1..Len(addr) |-> IF addr[i] \in {".", ":"} THEN "_" ELSE addr[i]]

generate_filename(name, addr, seconds) ==
  name \o <<"-">> \o FormatDate(seconds) \o <<"-">> \o SanitizeAddr(addr)
    \o <<".", "j", "s", "o", "n">>

(***************************************************************************)
(* serde_json::Value and to_string_pretty (PrettyFormatter, two spaces of  *)
(* indentation).  A Value is a record [t, v]; an object's v is a function  *)
(* from its keys to their values (serde_json's Map is a BTreeMap: unique   *)
(* keys, iterated in byte order).                                          *)
(***************************************************************************)
Null == [t |-> "null", v |-> 0]

Bool(b) == [t |-> "bool", v |-> b]

Num(n) == [t |-> "num", v |-> n]

Str(s) == [t |-> "str", v |-> s]

Arr(a) == [t |-> "arr", v |-> a]

Obj(m) == [t |-> "obj", v |-> m]

\* the characters of the model in byte order
ByteOrder ==
  <<"\n", " ", "\"", ",", "-", ".", "/", "0", "1", "2", "3", "4", "5", "6",
    "7", "8", "9", ":", "Z", "[", "\\", "]", "_", "a", "b", "e", "f", "i",
    "j", "l", "m", "n", "o", "r", "s", "t", "u", "{", "}">>

ByteOf(c) == CHOOSE i \in 1..Len(ByteOrder) : ByteOrder[i] = c

RECURSIVE KeyLess(_, _)
KeyLess(a, b) ==
  IF b = <<>> THEN FALSE
  ELSE IF a = <<>> THEN TRUE
  ELSE IF Head(a) # Head(b) THEN ByteOf(Head(a)) < ByteOf(Head(b))
  ELSE KeyLess(Tail(a), Tail(b))

MinKey(ks) == CHOOSE k \in ks : \A j \in ks : j = k \/ KeyLess(k, j)

RECURSIVE Indent(_)
Indent(depth) == IF depth = 0 THEN <<>> ELSE <<" ", " ">> \o Indent(depth - 1)

\* a string written with no escapes
EscapeNothing(c) == <<c>>

\* format_escaped_str_contents: the escape of one character
EscapeChar(c) ==
  IF c = "\"" THEN <<"\\", "\"">>
  ELSE IF c = "\\" THEN <<"\\", "\\">>
  ELSE IF c = "\n" THEN <<"\\", "n">>
  ELSE <<c>>

RECURSIVE EscapeStr(_)
EscapeStr(s) == IF s = <<>> THEN <<>> ELSE EscapeChar(Head(s)) \o EscapeStr(Tail(s))

Quoted(s) == <<"\"">> \o EscapeStr(s) \o <<"\"">>

RECURSIVE PrettyValue(_, _), PrettyElems(_, _, _), PrettyMembers(_, _, _, _)
PrettyValue(val, depth) ==
  CASE val.t = "null" -> <<"n", "u", "l", "l">>
    [] val.t = "bool" ->
         IF val.v THEN <<"t", "r", "u", "e">> ELSE <<"f", "a", "l", "s", "e">>
    [] val.t = "num" -> itoa(val.v)
    [] val.t = "str" -> Quoted(val.v)
    [] val.t = "arr" ->
         IF val.v = <<>> THEN <<"[", "]">>
         ELSE <<"[">> \o PrettyElems(val.v, depth + 1, TRUE)
                \o <<"\n">> \o Indent(depth) \o <<"]">>
    [] val.t = "obj" ->
         IF DOMAIN val.v = {} THEN <<"{", "}">>
         ELSE <<"{">> \o PrettyMembers(val.v, DOMAIN val.v, depth + 1, TRUE)
                \o <<"\n">> \o Indent(depth) \o <<"}">>

PrettyElems(elems, depth, first) ==
  IF elems = <<>> THEN <<>>
  ELSE (IF first THEN <<"\n">> ELSE <<",", "\n">>) \o Indent(depth)
         \o PrettyValue(Head(elems), depth) \o PrettyElems(Tail(elems), depth, FALSE)

PrettyMembers(map, keys, depth, first) ==
  IF keys = {} THEN <<>>
  ELSE LET k == MinKey(keys)
       IN (IF first THEN <<"\n">> ELSE <<",", "\n">>) \o Indent(depth)
            \o Quoted(k) \o <<":", " ">> \o PrettyValue(map[k], depth)
            \o PrettyMembers(map, keys \ {k}, depth, FALSE)

to_string_pretty(payload) == PrettyValue(payload, 0)

\* json!({ "filename": filename }).to_string(): the compact form
FilenameJson(filename) ==
  <<"{">> \o Quoted(<<"f", "i", "l", "e", "n", "a", "m", "e">>) \o <<":">>
    \o Quoted(filename) \o <<"}">>

(***************************************************************************)
(* serde_json's reader (the RFC 8259 grammar over the model's characters), *)
(* which parses the request body and by which a file is read back.         *)
(***************************************************************************)
ParseFail == [ok |-> FALSE, val |-> Null, rest |-> <<>>]

ParseOk(val, rest) == [ok |-> TRUE, val |-> val, rest |-> rest]

RECURSIVE SkipWs(_)
SkipWs(s) ==
  IF s # <<>> /\ Head(s) \in {" ", "\n"} THEN SkipWs(Tail(s)) ELSE s

RECURSIVE ParseStrBody(_, _)
ParseStrBody(s, acc) ==
  IF s = <<>> THEN ParseFail
  ELSE IF Head(s) = "\"" THEN ParseOk(Str(acc), Tail(s))
  ELSE IF Head(s) = "\n" THEN ParseFail
  ELSE IF Head(s) = "\\" THEN
    IF Len(s) < 2 THEN ParseFail
    ELSE IF s[2] = "n" THEN ParseStrBody(SubSeq(s, 3, Len(s)), Append(acc, "\n"))
    ELSE IF s[2] \in {"\"", "\\", "/"} THEN
      ParseStrBody(SubSeq(s, 3, Len(s)), Append(acc, s[2]))
    ELSE ParseFail
  ELSE ParseStrBody(Tail(s), Append(acc, Head(s)))

RECURSIVE ParseDigits(_, _)
ParseDigits(s, n) ==
  IF s # <<>> /\ Head(s) \in Numeric
  THEN ParseDigits(Tail(s), 10 * n + (ByteOf(Head(s)) - ByteOf("0")))
  ELSE ParseOk(Num(n), s)

ParseNumber(s) ==
  IF Head(s) = "-" THEN
    IF Len(s) < 2 \/ s[2] \notin Numeric THEN ParseFail
    ELSE LET r == ParseDigits(Tail(s), 0) IN ParseOk(Num(-r.val.v), r.rest)
  ELSE ParseDigits(s, 0)

Literal(s, word, val) ==
  IF IsPrefix(word, s) THEN ParseOk(val, SubSeq(s, Len(word) + 1, Len(s)))
  ELSE ParseFail

RECURSIVE ParseValue(_), ParseElems(_, _), ParseMembers(_, _)
ParseValue(s0) ==
  LET s == SkipWs(s0) IN
  IF s = <<>> THEN ParseFail
  ELSE CASE Head(s) = "n" -> Literal(s, <<"n", "u", "l", "l">>, Null)
         [] Head(s) = "t" -> Literal(s, <<"t", "r", "u", "e">>, Bool(TRUE))
         [] Head(s) = "f" -> Literal(s, <<"f", "a", "l", "s", "e">>, Bool(FALSE))
         [] Head(s) = "\"" -> ParseStrBody(Tail(s), <<>>)
         [] Head(s) = "-" \/ Head(s) \in Numeric -> ParseNumber(s)
         [] Head(s) = "[" ->
              LET r == SkipWs(Tail(s)) IN
              IF r # <<>> /\ Head(r) = "]" THEN ParseOk(Arr(<<>>), Tail(r))
              ELSE ParseElems(r, <<>>)
         [] Head(s) = "{" ->
              LET r == SkipWs(Tail(s)) IN
              IF r # <<>> /\ Head(r) = "}" THEN ParseOk(Obj(<<>>), Tail(r))
              ELSE ParseMembers(r, <<>>)
         [] OTHER -> ParseFail

ParseElems(s, acc) ==
  LET e == ParseValue(s) IN
  IF ~e.ok THEN ParseFail
  ELSE LET r == SkipWs(e.rest) IN
       IF r = <<>> THEN ParseFail
       ELSE IF Head(r) = "]" THEN ParseOk(Arr(Append(acc, e.val)), Tail(r))
       ELSE IF Head(r) = "," THEN ParseElems(Tail(r), Append(acc, e.val))
       ELSE ParseFail

ParseMembers(s0, acc) ==
  LET s == SkipWs(s0) IN
  IF s = <<>> \/ Head(s) # "\"" THEN ParseFail
  ELSE LET k == ParseStrBody(Tail(s), <<>>) IN
       IF ~k.ok THEN ParseFail
       ELSE LET c == SkipWs(k.rest) IN
            IF c = <<>> \/ Head(c) # ":" THEN ParseFail
            ELSE LET e == ParseValue(Tail(c)) IN
                 IF ~e.ok THEN ParseFail
                 ELSE LET r == SkipWs(e.rest)
                          m == (k.val.v :> e.val) @@ acc
                      IN IF r = <<>> THEN ParseFail
                         ELSE IF Head(r) = "}" THEN ParseOk(Obj(m), Tail(r))
                         ELSE IF Head(r) = "," THEN ParseMembers(Tail(r), m)
                         ELSE ParseFail

\* the whole text is one JSON value, followed by white space only
from_str(s) ==
  LET r == ParseValue(s) IN
  IF r.ok /\ SkipWs(r.rest) = <<>> THEN r ELSE ParseFail

(***************************************************************************)
(* Paths and the file system.  A path is the sequence of its components    *)
(* (std::path::Path::components: empty components are dropped); dirs is    *)
(* the set of existing directories, files maps each existing regular file  *)
(* to its bytes.                                                           *)
(***************************************************************************)
RECURSIVE Components(_, _)
Components(s, cur) ==
  IF s = <<>> THEN (IF cur = <<>> THEN <<>> ELSE <<cur>>)
  ELSE IF Head(s) = "/" THEN
    (IF cur = <<>> THEN <<>> ELSE <<cur>>) \o Components(Tail(s), <<>>)
  ELSE Components(Tail(s), Append(cur, Head(s)))

PathBuf(s) == Components(s, <<>>)

\* Path::parent
ParentOf(path) == SubSeq(path, 1, Len(path) - 1)

\* env::current_dir().display()
CurrentDir == <<"/", "w">>

DataRoot == PathBuf(CurrentDir \o <<"/", "d", "a", "t", "a">>)

\* format!("{}/data/{}", current_dir.display(), filename)
OutputPath(filename) ==
  PathBuf(CurrentDir \o <<"/", "d", "a", "t", "a", "/">> \o filename)

Exists(path) == path \in dirs \/ path \in DOMAIN files

Prefixes(path, upto) == {SubSeq(path, 1, k) : k \in 0..upto}

\* the length of the longest existing ancestor-or-self directory of path
ExistingDepth(path) ==
  CHOOSE k \in 0..Len(path) :
    /\ SubSeq(path, 1, k) \in dirs
    /\ \A j \in (k + 1)..Len(path) : SubSeq(path, 1, j) \notin dirs

\* an open without O_TRUNC
KeepContent(old) == old

\* File::create: O_CREAT | O_TRUNC
Truncated(old) == <<>>

\* a write(2) in append mode
WriteAtEnd(content, offset, bytes) == content \o bytes

\* a write(2) that does not advance the offset
WriteAtStart(content, offset, bytes) ==
  [i \in 1..(IF Len(bytes) > Len(content) THEN Len(bytes) ELSE Len(content)) |->
     IF i <= Len(bytes) THEN bytes[i] ELSE content[i]]

\* one write(2) of bytes at offset: the file grows, a gap reads as NUL
WriteAt(content, offset, bytes) ==
  LET end == offset + Len(bytes)
      n == IF end > Len(content) THEN end ELSE Len(content)
  IN [i \in 1..n |->
        IF i > offset /\ i <= end THEN bytes[i - offset]
        ELSE IF i <= Len(content) THEN content[i]
        ELSE "NUL"]

(***************************************************************************)
(* Requests.  Each request is one run of save_data; pc is the place the    *)
(* run has reached.                                                        *)
(***************************************************************************)
Requests == {1, 2}

NoHeader == [present |-> FALSE, text |-> TRUE, value |-> <<>>]

Header(value) == [present |-> TRUE, text |-> TRUE, value |-> value]

\* a header value that is not visible ASCII: HeaderValue::to_str fails
OpaqueHeader == [present |-> TRUE, text |-> FALSE, value |-> <<>>]

None == <<"n", "o", "n", "e">>

InvalidName == <<"I", "n", "v", "a", "l", "i", "d", " ", "n", "a", "m", "e">>

\* the transport-level peer address
peer_addr(headers, addr) == addr

\* headers.get("X-Forwarded-For").map(|a| a.to_str().unwrap_or("none")).unwrap_or("none")
remote_addr(headers, addr) ==
  IF headers.present /\ headers.text THEN headers.value ELSE None

Idle ==
  [pc |-> "idle", name |-> <<>>, headers |-> NoHeader, addr |-> <<>>,
   payload |-> Null, data |-> <<>>, seconds |-> 0, filename |-> <<>>,
   path |-> <<>>, written |-> 0, status |-> 0, body |-> <<>>,
   logged |-> <<>>, raced |-> FALSE, found_absent |-> FALSE]

InFlight(r) == req[r].pc \notin {"idle", "done", "panicked"}

Quiet == \A r \in Requests : ~InFlight(r)

\* last: when requests arrive one after the other, the latest request and
\* the file system as it found it
NoLast == [r |-> 0, dirs |-> {}, files |-> <<>>]

\* unwrap() of an io::Result: the handler's task panics on Err
Unwrap(ok, next) == IF ok THEN next ELSE "panicked"

(***************************************************************************)
(* save_data, lines 64-78: the payload is printed, the header read, the    *)
(* receipt logged, the name validated, the file name and path derived.     *)
(***************************************************************************)
\* the entry without the check of the name
EntrySkipValidation(r, name, headers, addr, payload, seconds) ==
  LET remote == remote_addr(headers, addr)
      filename == generate_filename(name, remote, seconds)
  IN [req[r] EXCEPT !.pc = "check_dir", !.name = name, !.headers = headers,
        !.addr = addr, !.payload = payload, !.data = to_string_pretty(payload),
        !.logged = addr, !.seconds = seconds, !.filename = filename,
        !.path = OutputPath(filename)]

Entry(r, name, headers, addr, payload, seconds) ==
  LET data == to_string_pretty(payload)
      remote == remote_addr(headers, addr)
      filename == generate_filename(name, remote, seconds)
      seen == [req[r] EXCEPT !.name = name, !.headers = headers, !.addr = addr,
                 !.payload = payload, !.data = data, !.logged = addr]
  IN IF ~is_valid_name(name)
     THEN [seen EXCEPT !.pc = "done", !.status = 400, !.body = InvalidName]
     ELSE [seen EXCEPT !.pc = "check_dir", !.seconds = seconds,
             !.filename = filename, !.path = OutputPath(filename)]

Begin(r, names, headerSet, addrs, payloads, clock) ==
  /\ req[r].pc = "idle"
  /\ \E name \in names, headers \in headerSet, addr \in addrs,
        payload \in payloads, seconds \in clock :
       req' = [req EXCEPT ![r] = Entry(r, name, headers, addr, payload, seconds)]
  /\ UNCHANGED <<dirs, files, probe>>

\* no check of the parent directory
NeverMissing(r) == FALSE

\* line 81: if !path.parent().unwrap().exists()
ParentMissing(r) == ~Exists(ParentOf(req[r].path))

CheckDir(r) ==
  /\ req[r].pc = "check_dir"
  /\ req' = [req EXCEPT ![r].pc = IF ParentMissing(r) THEN "mkdir" ELSE "create",
                        ![r].found_absent = ParentMissing(r)]
  /\ UNCHANGED <<dirs, files, last, probe>>

\* line 82: create_dir_all(parent).unwrap(), every missing ancestor created;
\* Ok also when another request has created the directory meanwhile
CreateDirAll(parent) == dirs \cup Prefixes(parent, Len(parent))

MkDir(r) ==
  /\ req[r].pc = "mkdir"
  /\ dirs' = CreateDirAll(ParentOf(req[r].path))
  /\ req' = [req EXCEPT ![r].pc = Unwrap(TRUE, "create")]
  /\ UNCHANGED <<files, last, probe>>

\* create_dir_all fails at a missing component (permission denied, disk
\* full): the ancestors created before it remain
MkDirFail(r) ==
  /\ req[r].pc = "mkdir"
  /\ LET parent == ParentOf(req[r].path) IN
       /\ parent \notin dirs
       /\ \E k \in ExistingDepth(parent)..(Len(parent) - 1) :
            dirs' = dirs \cup Prefixes(parent, k)
  /\ req' = [req EXCEPT ![r].pc = Unwrap(FALSE, "create")]
  /\ UNCHANGED <<files, last, probe>>

\* line 85: File::create(&path).unwrap()
CanCreate(path) == ParentOf(path) \in dirs /\ path \notin dirs

CreateFile(r) ==
  /\ req[r].pc = "create"
  /\ CanCreate(req[r].path)
  /\ LET path == req[r].path
         old == IF path \in DOMAIN files THEN files[path] ELSE <<>>
         open == {o \in Requests \ {r} :
                    req[o].pc = "write" /\ req[o].path = path}
     IN /\ files' = (path :> Truncated(old)) @@ files
        /\ req' = [o \in Requests |->
                     IF o = r
                     THEN [req[o] EXCEPT !.pc = Unwrap(TRUE, "write"),
                             !.written = 0, !.raced = (open # {})]
                     ELSE IF o \in open THEN [req[o] EXCEPT !.raced = TRUE]
                     ELSE req[o]]
  /\ UNCHANGED <<dirs, last, probe>>

\* File::create fails (no parent directory, permission denied, no space):
\* nothing is created and an existing file keeps its content
CreateFileFail(r) ==
  /\ req[r].pc = "create"
  /\ req' = [req EXCEPT ![r].pc = Unwrap(FALSE, "write")]
  /\ UNCHANGED <<dirs, files, last, probe>>

\* line 86: file.write_all(data.as_bytes()).unwrap(), a loop of write(2)
\* calls, each of which takes a non-empty prefix of what is left; after the
\* last one the handler logs and returns 200 with {"filename": filename}
WriteChunk(r) ==
  /\ req[r].pc = "write"
  /\ LET q == req[r]
         left == Len(q.data) - q.written
     IN \E n \in 1..left :
          /\ files' = [files EXCEPT ![q.path] =
                         WriteAt(@, q.written, SubSeq(q.data, q.written + 1, q.written + n))]
          /\ req' = [req EXCEPT ![r] =
                       IF n = left
                       THEN [q EXCEPT !.written = q.written + n,
                               !.pc = Unwrap(TRUE, "done"), !.status = 200,
                               !.body = FilenameJson(q.filename)]
                       ELSE [q EXCEPT !.written = q.written + n]]
  /\ UNCHANGED <<dirs, last, probe>>

\* a write(2) fails (disk full, I/O error): what was written stays
WriteFail(r) ==
  /\ req[r].pc = "write"
  /\ req[r].written < Len(req[r].data)
  /\ req' = [req EXCEPT ![r].pc = Unwrap(FALSE, "done")]
  /\ UNCHANGED <<dirs, files, last, probe>>

(***************************************************************************)
(* The inputs of the requests.                                             *)
(***************************************************************************)
Names == {<<"a">>, <<"a", ".">>}

Headers == {NoHeader, Header(<<"1", ".", "2">>), Header(<<"a", "/", "b">>)}

Addrs == {<<"1", ".", "1", ":", "9">>, <<"2", ".", "2", ":", "9">>}

Payloads == {Num(1), Arr(<<>>), Str(<<"a">>)}

Timestamps == {1704067199, 1704067200}

save_data(r) ==
  /\ Begin(r, Names, Headers, Addrs, Payloads, Timestamps)
  /\ UNCHANGED last

InitFs ==
  /\ dirs \in {Prefixes(DataRoot, 1), Prefixes(DataRoot, 2)}
  /\ files = <<>>

Init ==
  /\ InitFs
  /\ req = [r \in Requests |-> Idle]
  /\ last = NoLast
  /\ probe = <<>>

\* requests are handled concurrently, one task each
Next ==
  \E r \in Requests :
    \/ save_data(r)
    \/ CheckDir(r)
    \/ MkDir(r)
    \/ MkDirFail(r)
    \/ CreateFile(r)
    \/ CreateFileFail(r)
    \/ WriteChunk(r)
    \/ WriteFail(r)

Spec == Init /\ [][Next]_vars

\* requests arrive one after the other
save_data_alone(r) ==
  /\ Quiet
  /\ Begin(r, Names, Headers, Addrs, Payloads, Timestamps)
  /\ last' = [r |-> r, dirs |-> dirs, files |-> files]

NextSeq ==
  \E r \in Requests :
    \/ save_data_alone(r)
    \/ CheckDir(r)
    \/ MkDir(r)
    \/ MkDirFail(r)
    \/ CreateFile(r)
    \/ CreateFileFail(r)
    \/ WriteChunk(r)
    \/ WriteFail(r)

SpecSeq == Init /\ [][NextSeq]_vars

(***************************************************************************)
(* One request with a payload drawn from the JSON values of bounded size.  *)
(***************************************************************************)
RECURSIVE SeqsUpTo(_, _)
SeqsUpTo(S, n) ==
  IF n = 0 THEN {<<>>}
  ELSE LET shorter == SeqsUpTo(S, n - 1)
       IN shorter \cup {Append(q, x) : q \in shorter, x \in S}

Scalars ==
  {Null, Bool(TRUE), Bool(FALSE), Num(0), Num(-12), Str(<<>>),
   Str(<<"a", "\"">>), Str(<<"\\", "\n">>)}

Keys == {<<"b">>, <<"a", "\"">>}

Arrays(elems) == {Arr(q) : q \in SeqsUpTo(elems, MaxArrLen)}

Objects(elems) == UNION {{Obj(m) : m \in [ks -> elems]} : ks \in SUBSET Keys}

Composite == {Arr(<<>>), Arr(<<Num(0)>>), Obj(<<>>), Obj(<<"b">> :> Str(<<"a", "\"">>))}

Values ==
  Scalars \cup Arrays(Scalars) \cup Objects(Scalars)
    \cup {Arr(<<c, Null>>) : c \in Composite}
    \cup {Obj(<<"b">> :> c) : c \in Composite}

save_data_value(r) ==
  /\ r = 1
  /\ Begin(r, Names, Headers, {<<"1", ".", "1", ":", "9">>}, Values, {1704067200})
  /\ last' = [r |-> r, dirs |-> dirs, files |-> files]

NextValue ==
  \E r \in Requests :
    \/ save_data_value(r)
    \/ CheckDir(r)
    \/ MkDir(r)
    \/ MkDirFail(r)
    \/ CreateFile(r)
    \/ CreateFileFail(r)
    \/ WriteChunk(r)
    \/ WriteFail(r)

SpecValue == Init /\ [][NextValue]_vars

(***************************************************************************)
(* is_valid_name applied to every string of bounded length.                *)
(***************************************************************************)
NameChars == {"a", "Z", "0", "9", "-", "_", " ", "/", "."}

InitValid ==
  /\ InitFs
  /\ req = [r \in Requests |-> Idle]
  /\ last = NoLast
  /\ probe \in {[name |-> n, called |-> FALSE, result |-> FALSE] :
                  n \in SeqsUpTo(NameChars, MaxNameLen)}

CallIsValidName ==
  /\ ~probe.called
  /\ probe' = [probe EXCEPT !.called = TRUE, !.result = is_valid_name(probe.name)]
  /\ UNCHANGED <<dirs, files, req, last>>

SpecValid == InitValid /\ [][CallIsValidName]_vars

(***************************************************************************)
(* The file names of two requests: header, name and clock drawn from       *)
(* bounded sets, the name valid (save_data derives no file name otherwise).*)
(***************************************************************************)
FileNameChars == {"a", "-"}

AddrChars == {"1", ".", ":", "_"}

ProbeHeaders ==
  {NoHeader, OpaqueHeader, Header(None)}
    \cup {Header(v) : v \in SeqsUpTo(AddrChars, MaxAddrLen)}

ProbeClock == {1704067199, 1704067200, 1704153599}

ProbeInputs ==
  {[name |-> n, headers |-> h, seconds |-> t] :
     n \in SeqsUpTo(FileNameChars, MaxFileNameLen), h \in ProbeHeaders,
     t \in ProbeClock}

InitFilename ==
  /\ InitFs
  /\ req = [r \in Requests |-> Idle]
  /\ last = NoLast
  /\ probe \in {[a |-> x, called |-> FALSE, b |-> x, fa |-> <<>>, fb |-> <<>>] :
                  x \in ProbeInputs}

FilenameOf(x) ==
  generate_filename(x.name, remote_addr(x.headers, <<>>), x.seconds)

CallGenerateFilename ==
  /\ ~probe.called
  /\ \E y \in ProbeInputs :
       probe' = [probe EXCEPT !.called = TRUE, !.b = y,
                   !.fa = FilenameOf(probe.a), !.fb = FilenameOf(y)]
  /\ UNCHANGED <<dirs, files, req, last>>

SpecFilename == InitFilename /\ [][CallGenerateFilename]_vars

(***************************************************************************)
(* Properties.                                                             *)
(***************************************************************************)
Ok(r) == req[r].pc = "done" /\ req[r].status = 200

Derived(r) == req[r].pc \notin {"idle"} /\ req[r].filename # <<>>

AllowedNameChars == Alphabetic \cup Numeric \cup {"-", "_"}

HasForbiddenChar(name) == \E i \in 1..Len(name) : name[i] \notin AllowedNameChars

\* the sanitized address of the glossary: '.' and ':' replaced by '_'
Underscored(s) == [i \in 1..Len(s) |-> IF s[i] = "." \/ s[i] = ":" THEN "_" ELSE s[i]]

HeaderText(h) == IF h.present /\ h.text THEN h.value ELSE None

\* C1: a request whose name has a character that is not alphanumeric, '-'
\* or '_' makes one step only, from its arrival to the answer 400 "Invalid
\* name", and that step leaves the directories and the files as they were,
\* whatever the body and the headers are.
C1_InvalidNameRejected ==
  [][\A r \in Requests :
       (HasForbiddenChar(req'[r].name) /\ req'[r] # req[r]) =>
         /\ req[r].pc = "idle"
         /\ req'[r].pc = "done"
         /\ req'[r].status = 400
         /\ req'[r].body = InvalidName
         /\ dirs' = dirs
         /\ files' = files]_vars

C1_Witness ==
  \E r \in Requests :
    /\ HasForbiddenChar(req[r].name)
    /\ req[r].status = 400
    /\ req[r].headers.present
    /\ files # <<>>

\* C2: after a single request with a valid name and JSON body B has
\* returned 200, the file it names exists and its whole content reads back
\* as a JSON value equal to B.
C2_RoundTrip ==
  \A r \in Requests :
    Ok(r) =>
      /\ req[r].path \in DOMAIN files
      /\ from_str(files[req[r].path]).ok
      /\ from_str(files[req[r].path]).val = req[r].payload

C2_Witness ==
  \E r \in Requests :
    /\ Ok(r)
    /\ req[r].payload = Arr(<<Obj(<<"b">> :> Str(<<"a", "\"">>)), Null>>)
    /\ files[req[r].path] # <<>>

\* C3: when two requests are handled one after the other and both return
\* 200, requests with the same name, date and address are written to the
\* same file, and the file of the second holds exactly the second payload,
\* with no byte of the first, also when the first payload is longer.
C3_Overwrite ==
  \A a, b \in Requests :
    (a # b /\ Ok(a) /\ Ok(b) /\ last.r = b) =>
      /\ files[req[b].path] = req[b].data
      /\ (/\ req[a].name = req[b].name
          /\ FormatDate(req[a].seconds) = FormatDate(req[b].seconds)
          /\ req[a].headers = req[b].headers) => req[a].path = req[b].path

C3_Witness ==
  \E a, b \in Requests :
    /\ a # b /\ Ok(a) /\ Ok(b) /\ last.r = b
    /\ req[a].path = req[b].path
    /\ Len(req[a].data) > Len(req[b].data)

C6_DirectChild ==
  /\ \A f \in DOMAIN files : ParentOf(f) = DataRoot
  /\ dirs \subseteq Prefixes(DataRoot, Len(DataRoot))

\* C7: under any interleaving, a request that is about to create its file,
\* or holds it open, or has returned 200, finds the file's parent directory
\* and all its ancestors in place; and a request that found the directory
\* absent and then finds it created by another request proceeds to create
\* its file.
C7_DirBeforeWrite ==
  /\ [](\A r \in Requests :
          (req[r].pc \in {"create", "write"} \/ Ok(r)) =>
            Prefixes(ParentOf(req[r].path), Len(req[r].path) - 1) \subseteq dirs)
  /\ [][\A r \in Requests :
          (/\ req[r].pc = "mkdir"
           /\ ParentOf(req[r].path) \in dirs
           /\ req'[r] # req[r]) => req'[r].pc = "create"]_vars

C7_Witness ==
  \E a, b \in Requests :
    /\ a # b /\ Ok(a) /\ Ok(b)
    /\ req[a].found_absent /\ req[b].found_absent
    /\ ParentOf(req[a].path) = ParentOf(req[b].path)

IsProperPrefix(s, t) == Len(s) < Len(t) /\ IsPrefix(s, t)

\* C8 as stated: a request that fails at a file system step leaves the
\* directories and the files as they were before it (taken for the requests
\* whose file is a direct child of the data root).
C8_FailsAtomically ==
  \A r \in Requests :
    (last.r = r /\ req[r].pc = "panicked" /\ ParentOf(req[r].path) = DataRoot) =>
      dirs = last.dirs /\ files = last.files

\* C8 amended: a request handled alone either returns 200, and its file
\* holds its whole payload, or is aborted at a failing file system step
\* without an answer; the abort undoes nothing: the directories created
\* before it remain (ancestors of the file only), every other file is
\* untouched, and the file itself either is as before (the failure came
\* before it was created or truncated) or holds a proper prefix of the
\* payload, possibly empty.
C8_FailsWithoutRollback ==
  \A r \in Requests :
    last.r = r =>
      /\ Ok(r) => files[req[r].path] = req[r].data
      /\ req[r].pc = "done" => req[r].status \in {200, 400}
      /\ req[r].pc = "panicked" =>
           /\ req[r].status = 0
           /\ req[r].body = <<>>
           /\ last.dirs \subseteq dirs
           /\ dirs \ last.dirs \subseteq Prefixes(req[r].path, Len(req[r].path) - 1)
           /\ DOMAIN files \subseteq DOMAIN last.files \cup {req[r].path}
           /\ \A f \in DOMAIN last.files :
                f \in DOMAIN files /\ (f # req[r].path => files[f] = last.files[f])
           /\ req[r].path \in DOMAIN files =>
                \/ IsProperPrefix(files[req[r].path], req[r].data)
                \/ /\ req[r].path \in DOMAIN last.files
                   /\ files[req[r].path] = last.files[req[r].path]

C8_Witness ==
  \E r \in Requests :
    /\ last.r = r
    /\ req[r].pc = "panicked"
    /\ req[r].path \in DOMAIN last.files
    /\ files[req[r].path] # last.files[req[r].path]
    /\ files[req[r].path] # <<>>

\* C9 as stated: when two requests that derive the same path run
\* concurrently and both return 200, the file is the complete payload of one
\* of them.
C9_LastWriterWins ==
  \A a, b \in Requests :
    (a # b /\ Ok(a) /\ Ok(b) /\ req[a].path = req[b].path) =>
      files[req[a].path] \in {req[a].data, req[b].data}

\* C9 amended: when two requests that derive the same path both return 200,
\* the file is not empty, it is as long as one of the two payloads, and each
\* of its bytes is the byte at that place of one of the payloads or the NUL
\* of a gap; it is one complete payload when neither request created the
\* file while the other held it open.
C9_NoLockMixture ==
  \A a, b \in Requests :
    (a # b /\ Ok(a) /\ Ok(b) /\ req[a].path = req[b].path) =>
      LET f == files[req[a].path]
          da == req[a].data
          db == req[b].data
      IN /\ f # <<>>
         /\ Len(f) \in {Len(da), Len(db)}
         /\ \A i \in 1..Len(f) :
              \/ i <= Len(da) /\ f[i] = da[i]
              \/ i <= Len(db) /\ f[i] = db[i]
              \/ f[i] = "NUL"
         /\ (~req[a].raced /\ ~req[b].raced) => f \in {da, db}

C9_Witness ==
  \E a, b \in Requests :
    /\ a # b /\ Ok(a) /\ Ok(b) /\ req[a].path = req[b].path
    /\ req[a].raced
    /\ files[req[a].path] \notin {req[a].data, req[b].data}
    /\ \E i \in 1..Len(files[req[a].path]) : files[req[a].path][i] = "NUL"

====
